---- MODULE Spec2Model ----
(***************************************************************************)
(* Bearer-token authentication of keycloak-basic: the startup key-set      *)
(* load (GetKeycloakPublicKey), the bearer extractor (extractBearerToken), *)
(* the local verifier (verifyToken, on top of golang-jwt/v5's              *)
(* ParseWithClaims), the introspection client (introspectToken) and the    *)
(* two gin middlewares JWTAuthMiddleware / TokenIntrospectionMiddleware.   *)
(*                                                                         *)
(* Strings are sequences of atoms.  An atom is a record [c |-> ...]: the   *)
(* words "Bearer", "bearer", "Token", "abc", one space, one tab, or a      *)
(* compact-serialised JWT [c |-> "jwt", t |-> <token>] whose header,       *)
(* payload and signature are the fields of <token>.                        *)
(***************************************************************************)
EXTENDS Integers, Sequences, FiniteSets

VARIABLES
    phase,       \* position of main(): "boot", "serving" or "crashed" (panic)
    publicKeys,  \* jwt.go:76  var publicKeys map[string]*rsa.PublicKey
    now,         \* the wall clock read by time.Now()
    req,         \* the in-flight requests: one gin.Context per request
    startup,     \* what the startup key-set load did: its GETs, what it
                 \* fetched, its assignments to publicKeys, its result
    revoked      \* the provider's state: the tokens it has revoked

vars == <<phase, publicKeys, now, req, startup, revoked>>

(***************************************************************************)
(* Bounds of the model.                                                    *)
(***************************************************************************)
MaxTime == 2        \* the clock runs 0..MaxTime
MaxHeaderLen == 4   \* atoms in an Authorization header made of plain words

(***************************************************************************)
(* Program constants.                                                      *)
(***************************************************************************)
keycloakURL == "http://localhost:8080/realms/users"
StatusOK == 200
StatusUnauthorized == 401
StatusInternalServerError == 500

(***************************************************************************)
(* Strings.                                                                *)
(***************************************************************************)
Word(w) == [c |-> w]
SP == Word(" ")
TAB == Word("\t")
BearerWord == Word("Bearer")
JwtAtom(t) == [c |-> "jwt", t |-> t]

PlainAtoms == {BearerWord, Word("bearer"), Word("Token"), Word("abc"), SP, TAB}

\* strings.Split(s, " "): n separators give n+1 parts, empty parts included.
RECURSIVE Split(_)
Split(s) ==
    IF \A i \in 1..Len(s) : s[i] # SP
    THEN <<s>>
    ELSE LET i == CHOOSE k \in 1..Len(s) :
                      /\ s[k] = SP
                      /\ \A j \in 1..(k-1) : s[j] # SP
         IN  <<SubSeq(s, 1, i - 1)>> \o Split(SubSeq(s, i + 1, Len(s)))


(***************************************************************************)
(* helper.go: extractBearerToken.  The result carries the token, the       *)
(* success flag and, on failure, the response already written (c.JSON +    *)
(* c.Abort): its status, the fields of its JSON body and which of the two  *)
(* error texts it carries.                                                 *)
(***************************************************************************)
ExtractResult(ok, token, reason) ==
    [ok     |-> ok,
     token  |-> token,
     reason |-> reason,
     status |-> IF ok THEN 0 ELSE StatusUnauthorized,
     body   |-> IF ok THEN {} ELSE {"error"}]

extractBearerToken_anyScheme(authHeader) ==
    IF authHeader = <<>>
    THEN ExtractResult(FALSE, <<>>, "missing")
    ELSE LET parts == Split(authHeader)
         IN  IF Len(parts) # 2
             THEN ExtractResult(FALSE, <<>>, "malformed")
             ELSE ExtractResult(TRUE, parts[2], "none")

extractBearerToken(authHeader) ==
    IF authHeader = <<>>
    THEN ExtractResult(FALSE, <<>>, "missing")
    ELSE LET parts == Split(authHeader)
         IN  IF Len(parts) # 2 \/ parts[1] # <<BearerWord>>
             THEN ExtractResult(FALSE, <<>>, "malformed")
             ELSE ExtractResult(TRUE, parts[2], "none")

(***************************************************************************)
(* Keys.  A key pair is named by its public material; the provider         *)
(* publishes JWK records {kid, n}; n = "bad" is a modulus that is not      *)
(* base64url.                                                              *)
(***************************************************************************)
Kids == {"k1", "k2", "k9"}
Materials == {"m1", "m2", "m9"}
NoKid == "nokid"    \* the header has no string "kid"

JWKs == {[kid |-> "k1", n |-> "m1"],
         [kid |-> "k2", n |-> "m2"],
         [kid |-> "k2", n |-> "bad"]}

JWKSDocs == {<<>>} \cup {<<a>> : a \in JWKs} \cup {<<a, b>> : a \in JWKs, b \in JWKs}

\* What fetchJWKS can return: the parsed document, or an error: the GET
\* failed, the status was not 200, the body could not be read, the body was
\* not a JSON key-set document.
FetchErrors == {"transport", "status", "read", "parse"}

FetchOutcomes ==
    {[ok |-> FALSE, keys |-> <<>>, err |-> e] : e \in FetchErrors}
        \cup {[ok |-> TRUE, keys |-> d, err |-> "none"] : d \in JWKSDocs}

\* jwt.go:200 jwkToRSAPublicKey: fails when the modulus does not decode.
jwkToRSAPublicKey(jwk) ==
    IF jwk.n = "bad" THEN [ok |-> FALSE, key |-> "none"]
                     ELSE [ok |-> TRUE, key |-> jwk.n]

\* A map[string]*rsa.PublicKey is a function from the kids it holds.
EmptyMap == [k \in {} |-> "none"]
MapSet(m, k, v) == [x \in (DOMAIN m) \cup {k} |-> IF x = k THEN v ELSE m[x]]

\* The loop of GetKeycloakPublicKey (jwt.go:92-98) over keys[i..], from map m:
\* the map it leaves behind and whether it ran to the end.
RECURSIVE ConvertKeys(_, _, _)
ConvertKeys(keys, i, m) ==
    IF i > Len(keys)
    THEN [ok |-> TRUE, map |-> m]
    ELSE LET c == jwkToRSAPublicKey(keys[i])
         IN  IF ~c.ok
             THEN [ok |-> FALSE, map |-> m]
             ELSE ConvertKeys(keys, i + 1, MapSet(m, keys[i].kid, c.key))

\* jwt.go:83 GetKeycloakPublicKey: [ok, map] where map is the value of
\* publicKeys after the call, given its value before.
GetKeycloakPublicKey(before, fetched) ==
    IF ~fetched.ok
    THEN [ok |-> FALSE, map |-> before]
    ELSE ConvertKeys(fetched.keys, 1, EmptyMap)

(***************************************************************************)
(* Tokens.  exp and nbf are sets: empty when the claim is absent, {t}      *)
(* when it is present.  signer names the key pair whose private key made   *)
(* the signature over this header and payload ("m9" is a key pair the      *)
(* provider never published).                                              *)
(***************************************************************************)
Algs == {"RS256", "PS256", "HS256"}
Issuers == {keycloakURL, "http://evil.example/realms/users"}
Audiences == {<<>>, <<"other">>, <<"other", "account">>}
Subjects == {"u1", "u2"}
OptTimes(S) == {{}} \cup {{t} : t \in S}

Tokens ==
    [alg    : Algs,
     kid    : {NoKid} \cup Kids,
     signer : Materials,
     iss    : Issuers,
     exp    : OptTimes(1..(MaxTime + 1)),
     nbf    : OptTimes({MaxTime, MaxTime + 1}),
     aud    : Audiences,
     sub    : Subjects,
     email  : {"e1"}]

\* json decoding of the payload into CustomClaims (jwt.go:65).
Claims(t) ==
    [sub |-> t.sub, iss |-> t.iss, exp |-> t.exp, nbf |-> t.nbf,
     aud |-> t.aud, email |-> t.email]

NoClaims ==
    [sub |-> "", iss |-> "", exp |-> {}, nbf |-> {}, aud |-> <<>>, email |-> ""]

\* A token string has the three segments of the compact serialisation iff
\* it is one JWT atom.
WellFormed(tokenString) == Len(tokenString) = 1 /\ tokenString[1].c = "jwt"


(***************************************************************************)
(* jwt.go: verifyToken.  A result is [ok, claims, err]; err is the set of  *)
(* failures the returned error carries (the validator of golang-jwt joins  *)
(* the failures it finds), empty on success.                               *)
(***************************************************************************)
VerifyOK(claims) == [ok |-> TRUE, claims |-> claims, err |-> {}]
VerifyFail(errs) == [ok |-> FALSE, claims |-> NoClaims, err |-> errs]
NotVerified == [ok |-> FALSE, claims |-> NoClaims, err |-> {}]

\* jwt.go:113  token.Method.(*jwt.SigningMethodRSA): RS256, RS384, RS512.
SigningMethodIsRSA(alg) == alg \in {"RS256", "RS384", "RS512"}

\* jwt.go:111-130  the Keyfunc handed to ParseWithClaims.
Keyfunc_fallback(t, keys) ==
    IF ~SigningMethodIsRSA(t.alg)
    THEN [ok |-> FALSE, key |-> "none", err |-> "unsupported_alg"]
    ELSE IF t.kid = NoKid
    THEN [ok |-> FALSE, key |-> "none", err |-> "no_kid"]
    ELSE IF t.kid \notin DOMAIN keys
    THEN IF DOMAIN keys = {}
         THEN [ok |-> FALSE, key |-> "none", err |-> "unknown_key"]
         ELSE [ok |-> TRUE, key |-> keys[CHOOSE k \in DOMAIN keys : TRUE], err |-> "none"]
    ELSE [ok |-> TRUE, key |-> keys[t.kid], err |-> "none"]

Keyfunc(t, keys) ==
    IF ~SigningMethodIsRSA(t.alg)
    THEN [ok |-> FALSE, key |-> "none", err |-> "unsupported_alg"]
    ELSE IF t.kid = NoKid
    THEN [ok |-> FALSE, key |-> "none", err |-> "no_kid"]
    ELSE IF t.kid \notin DOMAIN keys
    THEN [ok |-> FALSE, key |-> "none", err |-> "unknown_key"]
    ELSE [ok |-> TRUE, key |-> keys[t.kid], err |-> "none"]

\* token.Method.Verify inside ParseWithClaims: the RSA signature verifies
\* under a public key iff the matching private key made it.
SignatureVerifies(t, key) == t.signer = key

\* The registered-claims validator ParseWithClaims runs after the signature
\* check, at time t: exp must be strictly after t, nbf must not be after t;
\* every failure found is reported.
ValidateRegistered_expiryInclusive(claims, t) ==
    {"expired" : x \in {e \in claims.exp : ~(t <= e)}}
        \cup {"not_valid_yet" : x \in {n \in claims.nbf : t < n}}

ValidateRegistered(claims, t) ==
    {"expired" : x \in {e \in claims.exp : ~(t < e)}}
        \cup {"not_valid_yet" : x \in {n \in claims.nbf : t < n}}

\* jwt.go:111-134  jwt.ParseWithClaims with the Keyfunc above, at time t.
ParseWithClaims_withoutClaimsValidation(tokenString, keys, t) ==
    IF ~WellFormed(tokenString)
    THEN VerifyFail({"malformed"})
    ELSE LET tok == tokenString[1].t
             k == Keyfunc(tok, keys)
         IN  IF ~k.ok
             THEN VerifyFail({k.err})
             ELSE IF ~SignatureVerifies(tok, k.key)
             THEN VerifyFail({"bad_signature"})
             ELSE VerifyOK(Claims(tok))

ParseWithClaims(tokenString, keys, t) ==
    IF ~WellFormed(tokenString)
    THEN VerifyFail({"malformed"})
    ELSE LET tok == tokenString[1].t
             k == Keyfunc(tok, keys)
         IN  IF ~k.ok
             THEN VerifyFail({k.err})
             ELSE IF ~SignatureVerifies(tok, k.key)
             THEN VerifyFail({"bad_signature"})
             ELSE LET errs == ValidateRegistered(Claims(tok), t)
                  IN  IF errs # {} THEN VerifyFail(errs)
                                   ELSE VerifyOK(Claims(tok))

\* jwt.go:143-146
IssuerValid_any(claims) == TRUE

IssuerValid(claims) == claims.iss = keycloakURL

\* jwt.go:149  claims.ExpiresAt != nil && claims.ExpiresAt.Before(time.Now())
Expired(claims, t) == \E e \in claims.exp : e < t

\* jwt.go:154-165
AudienceValid_firstOnly(claims) ==
    Len(claims.aud) > 0 => claims.aud[1] = "account"

AudienceValid(claims) ==
    Len(claims.aud) > 0 => \E i \in 1..Len(claims.aud) : claims.aud[i] = "account"

\* jwt.go:142-165  the checks verifyToken makes itself, in their order, at
\* time t: the failure of the first that fails, or none.
ClaimChecks_audienceFirst(claims, t) ==
    IF ~AudienceValid(claims) THEN {"invalid_audience"}
    ELSE IF ~IssuerValid(claims) THEN {"invalid_issuer"}
    ELSE IF Expired(claims, t) THEN {"expired"}
    ELSE {}

ClaimChecks(claims, t) ==
    IF ~IssuerValid(claims) THEN {"invalid_issuer"}
    ELSE IF Expired(claims, t) THEN {"expired"}
    ELSE IF ~AudienceValid(claims) THEN {"invalid_audience"}
    ELSE {}

\* jwt.go:109  verifyToken; t1 is the clock when ParseWithClaims validates,
\* t2 >= t1 the clock at line 149.
verifyToken_remainingLifetime(tokenString, keys, t1, t2) ==
    LET p == ParseWithClaims(tokenString, keys, t1)
    IN  IF ~p.ok
        THEN p
        ELSE LET errs == ClaimChecks(p.claims, t2)
             IN  IF errs # {} THEN VerifyFail(errs)
                 ELSE VerifyOK([p.claims EXCEPT !.exp = {e - t2 : e \in @}])

verifyToken(tokenString, keys, t1, t2) ==
    LET p == ParseWithClaims(tokenString, keys, t1)
    IN  IF ~p.ok
        THEN p
        ELSE LET errs == ClaimChecks(p.claims, t2)
             IN  IF errs # {} THEN VerifyFail(errs) ELSE VerifyOK(p.claims)

(***************************************************************************)
(* tokenintrospect.go: introspectToken.  The provider's answer to the POST *)
(* is a transport error, a body that cannot be read, or a status with a    *)
(* body; a body is JSON or not, and JSON decodes into                      *)
(* IntrospectionResponse (a missing "active" decodes as false).            *)
(***************************************************************************)
Bodies ==
    {[json |-> FALSE, active |-> FALSE, sub |-> "", email |-> ""]}
        \cup [json : {TRUE}, active : BOOLEAN, sub : {"u1"}, email : {"e1"}]

ProviderAnswers ==
    {[kind |-> k, status |-> 0, body |-> CHOOSE b \in Bodies : ~b.json] :
        k \in {"neterr", "readerr"}}
        \cup [kind : {"http"}, status : {200, 201, 401, 503}, body : Bodies]

NoAnswer == [kind |-> "none", status |-> 0, body |-> CHOOSE b \in Bodies : ~b.json]

IntrospectOK(b) ==
    [ok |-> TRUE, active |-> b.active, sub |-> b.sub, email |-> b.email, err |-> "none"]
IntrospectFail(e) ==
    [ok |-> FALSE, active |-> FALSE, sub |-> "", email |-> "", err |-> e]
NotIntrospected == IntrospectFail("none")

\* tokenintrospect.go:95-118  what introspectToken returns for an answer.
introspectToken_noStatusCheck(answer) ==
    IF answer.kind = "neterr" THEN IntrospectFail("transport")
    ELSE IF answer.kind = "readerr" THEN IntrospectFail("read")
    ELSE IF ~answer.body.json THEN IntrospectFail("parse")
    ELSE IntrospectOK(answer.body)

introspectToken_assumeActive(answer) ==
    IF answer.kind = "neterr" THEN IntrospectFail("transport")
    ELSE IF answer.kind = "readerr" THEN IntrospectFail("read")
    ELSE IF answer.status # StatusOK THEN IntrospectFail("status")
    ELSE IF ~answer.body.json THEN IntrospectFail("parse")
    ELSE IntrospectOK([answer.body EXCEPT !.active = TRUE])

introspectToken(answer) ==
    IF answer.kind = "neterr" THEN IntrospectFail("transport")
    ELSE IF answer.kind = "readerr" THEN IntrospectFail("read")
    ELSE IF answer.status # StatusOK THEN IntrospectFail("status")
    ELSE IF ~answer.body.json THEN IntrospectFail("parse")
    ELSE IntrospectOK(answer.body)


(***************************************************************************)
(* A request: its gin.Context and what handling it has done so far.        *)
(*   pc      "idle" (no request), "arrived", "waiting" (blocked in         *)
(*           client.Do), "done" (the middleware has returned)              *)
(*   vcalls  calls of verifyToken; posts: introspection POSTs sent         *)
(*   answer  what the provider answered to the POST                        *)
(*   status, error, body  the response written (0: none yet): its status,  *)
(*           which error text it carries, the fields of its JSON object    *)
(*   ctx     the keys set with c.Set; next: c.Next() ran the handler       *)
(*   responses  the calls of c.JSON made for the request                   *)
(***************************************************************************)
IdleReq ==
    [pc |-> "idle", gate |-> "none", header |-> <<>>, token |-> <<>>,
     extracted |-> FALSE, vcalls |-> 0, posts |-> 0,
     vres |-> NotVerified, ires |-> NotIntrospected, t1 |-> 0, t2 |-> 0,
     answer |-> NoAnswer, status |-> 0, error |-> "none", body |-> {},
     ctx |-> {}, next |-> FALSE, aborted |-> FALSE, responses |-> 0]

\* c.JSON(status, gin.H{"error": error, ...}); c.Abort(); return
AbortWith(c, status, error, body) ==
    [c EXCEPT !.pc = "done", !.status = status, !.error = error, !.body = body,
              !.aborted = TRUE, !.responses = @ + 1]

\* c.Set("user_id", ...); c.Set("email", ...)
SetIdentity_skip(c, sub, email) == c

SetIdentity(c, sub, email) ==
    [c EXCEPT !.ctx = {<<"user_id", sub>>, <<"email", email>>}]

\* c.Next(): the downstream handler getTodosPrivate runs and answers 200.
RunNext(c) ==
    [c EXCEPT !.pc = "done", !.next = TRUE, !.status = StatusOK, !.body = {"data"},
              !.responses = @ + 1]

\* jwt.go:237-267  the handler of JWTAuthMiddleware on context c.
JWTAuthMiddleware_verifyFirst(c, keys, t1, t2) ==
    LET e == extractBearerToken(c.header)
        v == verifyToken(e.token, keys, t1, t2)
        c1 == [c EXCEPT !.token = e.token, !.extracted = e.ok, !.vcalls = @ + 1,
                        !.vres = v, !.t1 = t1, !.t2 = t2]
    IN  IF ~e.ok
        THEN AbortWith(c1, e.status, e.reason, e.body)
        ELSE IF ~v.ok
        THEN AbortWith(c1, StatusUnauthorized, "invalid_jwt", {"error", "detail", "method"})
        ELSE RunNext(SetIdentity(c1, v.claims.sub, v.claims.email))

JWTAuthMiddleware_noReturn(c, keys, t1, t2) ==
    LET e == extractBearerToken(c.header)
        c0 == IF e.ok THEN c ELSE AbortWith(c, e.status, e.reason, e.body)
        v == verifyToken(e.token, keys, t1, t2)
        c1 == [c0 EXCEPT !.token = e.token, !.extracted = e.ok,
                         !.vcalls = @ + 1, !.vres = v, !.t1 = t1, !.t2 = t2]
    IN  IF ~v.ok
        THEN AbortWith(c1, StatusUnauthorized, "invalid_jwt", {"error", "detail", "method"})
        ELSE RunNext(SetIdentity(c1, v.claims.sub, v.claims.email))

JWTAuthMiddleware(c, keys, t1, t2) ==
    LET e == extractBearerToken(c.header)
    IN  IF ~e.ok
        THEN AbortWith(c, e.status, e.reason, e.body)
        ELSE LET v == verifyToken(e.token, keys, t1, t2)
                 c1 == [c EXCEPT !.token = e.token, !.extracted = TRUE,
                                 !.vcalls = @ + 1, !.vres = v,
                                 !.t1 = t1, !.t2 = t2]
             IN  IF ~v.ok
                 THEN AbortWith(c1, StatusUnauthorized, "invalid_jwt", {"error", "detail", "method"})
                 ELSE RunNext(SetIdentity(c1, v.claims.sub, v.claims.email))

\* tokenintrospect.go:39-95  the handler of TokenIntrospectionMiddleware up
\* to the POST it blocks on.
TokenIntrospectionSend(c) ==
    LET e == extractBearerToken(c.header)
    IN  IF ~e.ok
        THEN AbortWith(c, e.status, e.reason, e.body)
        ELSE [c EXCEPT !.pc = "waiting", !.token = e.token, !.extracted = TRUE,
                       !.posts = @ + 1]

\* tokenintrospect.go:47-73  the rest of the handler, once the provider has
\* answered.
TokenIntrospectionRecv_ignoreActive(c, answer) ==
    LET i == introspectToken(answer)
        c1 == [c EXCEPT !.answer = answer, !.ires = i]
    IN  IF ~i.ok
        THEN AbortWith(c1, StatusInternalServerError, "introspect_failed", {"error", "detail", "method"})
        ELSE RunNext(SetIdentity(c1, i.sub, i.email))

TokenIntrospectionRecv_retryOnce(c, answer) ==
    LET i == introspectToken(answer)
        c1 == [c EXCEPT !.answer = answer, !.ires = i]
    IN  IF ~i.ok /\ c.posts < 2
        THEN [c1 EXCEPT !.posts = @ + 1]
        ELSE IF ~i.ok
        THEN AbortWith(c1, StatusInternalServerError, "introspect_failed", {"error", "detail", "method"})
        ELSE IF ~i.active
        THEN AbortWith(c1, StatusUnauthorized, "inactive", {"error", "method"})
        ELSE RunNext(SetIdentity(c1, i.sub, i.email))

TokenIntrospectionRecv_all401(c, answer) ==
    LET i == introspectToken(answer)
        c1 == [c EXCEPT !.answer = answer, !.ires = i]
    IN  IF ~i.ok
        THEN AbortWith(c1, StatusUnauthorized, "introspect_failed", {"error", "detail", "method"})
        ELSE IF ~i.active
        THEN AbortWith(c1, StatusUnauthorized, "inactive", {"error", "method"})
        ELSE RunNext(SetIdentity(c1, i.sub, i.email))

TokenIntrospectionRecv(c, answer) ==
    LET i == introspectToken(answer)
        c1 == [c EXCEPT !.answer = answer, !.ires = i]
    IN  IF ~i.ok
        THEN AbortWith(c1, StatusInternalServerError, "introspect_failed", {"error", "detail", "method"})
        ELSE IF ~i.active
        THEN AbortWith(c1, StatusUnauthorized, "inactive", {"error", "method"})
        ELSE RunNext(SetIdentity(c1, i.sub, i.email))

(***************************************************************************)
(* The Authorization headers clients send.                                 *)
(***************************************************************************)
BearerHeader(t) == <<BearerWord, SP, JwtAtom(t)>>

\* A token the provider issued and any verifier accepts while it lasts.
GoodToken(e) ==
    [alg |-> "RS256", kid |-> "k1", signer |-> "m1", iss |-> keycloakURL,
     exp |-> e, nbf |-> {}, aud |-> <<>>, sub |-> "u1", email |-> "e1"]

RECURSIVE SeqsUpTo(_, _)
SeqsUpTo(S, n) ==
    IF n = 0 THEN {<<>>}
    ELSE LET shorter == SeqsUpTo(S, n - 1)
         IN  shorter \cup {Append(q, a) : q \in shorter, a \in S}

\* Every header value made of at most MaxHeaderLen plain atoms.
PlainHeaders == SeqsUpTo(PlainAtoms, MaxHeaderLen)

\* The header value neither starts nor ends with a space or a tab: the
\* values c.GetHeader returns for a request the HTTP/1.1 server has parsed.
IsWS(a) == a \in {SP, TAB}
Trimmed(h) == h = <<>> \/ (~IsWS(h[1]) /\ ~IsWS(h[Len(h)]))

BadHeaders ==
    {h \in PlainHeaders : Trimmed(h)}
        \cup {<<Word("bearer"), SP, JwtAtom(GoodToken({}))>>}

JWTHeaders == BadHeaders \cup {BearerHeader(t) : t \in Tokens}

\* The introspection gate never decodes the token it forwards.
IntrospectHeaders ==
    BadHeaders \cup {BearerHeader(GoodToken(e)) : e \in OptTimes(1..(MaxTime + 1))}

HeadersFor(gate) == IF gate = "jwt" THEN JWTHeaders ELSE IntrospectHeaders

(***************************************************************************)
(* The state machine.                                                      *)
(***************************************************************************)
Reqs == DOMAIN req

\* GetKeycloakPublicKey has not been called.
NotLoaded ==
    [gets |-> 0, writes |-> 0, called |-> FALSE, ok |-> FALSE,
     fetched |-> [ok |-> FALSE, keys |-> <<>>, err |-> "none"]]

\* The record of one call of GetKeycloakPublicKey: one GET (jwt.go:176),
\* one assignment to publicKeys (jwt.go:91) when the fetch succeeded.
Loaded(fetched, g) ==
    [gets |-> 1, writes |-> IF fetched.ok THEN 1 ELSE 0, called |-> TRUE,
     ok |-> g.ok, fetched |-> fetched]

Init ==
    /\ phase = "boot"
    /\ publicKeys = EmptyMap
    /\ now = 0
    /\ req = [r \in {"r1"} |-> IdleReq]
    /\ startup = NotLoaded
    /\ revoked = {}

\* main.go:56-94  main(): the key-set load, then router.Run; either failing
\* panics.
main_ignoreLoadError ==
    /\ phase = "boot"
    /\ \E fetched \in FetchOutcomes, listen \in BOOLEAN :
          LET g == GetKeycloakPublicKey(publicKeys, fetched)
          IN  /\ publicKeys' = g.map
              /\ startup' = Loaded(fetched, g)
              /\ phase' = IF listen THEN "serving" ELSE "crashed"
    /\ UNCHANGED <<now, req, revoked>>

main ==
    /\ phase = "boot"
    /\ \E fetched \in FetchOutcomes, listen \in BOOLEAN :
          LET g == GetKeycloakPublicKey(publicKeys, fetched)
          IN  /\ publicKeys' = g.map
              /\ startup' = Loaded(fetched, g)
              /\ phase' = IF g.ok /\ listen THEN "serving" ELSE "crashed"
    /\ UNCHANGED <<now, req, revoked>>

\* A client sends a request to one of the two protected routes.
Arrive(r) ==
    /\ phase = "serving"
    /\ req[r].pc = "idle"
    /\ \E gate \in {"jwt", "introspect"} :
          \E header \in HeadersFor(gate) :
             req' = [req EXCEPT ![r] =
                        [IdleReq EXCEPT !.pc = "arrived", !.gate = gate, !.header = header]]
    /\ UNCHANGED <<phase, publicKeys, now, startup, revoked>>

\* The JWT gate handles request r; the clock may advance while it does.
ServeJWT_refreshOnUnknownKey(r) ==
    /\ phase = "serving"
    /\ req[r].pc = "arrived"
    /\ req[r].gate = "jwt"
    /\ \E d \in 0..1 :
          /\ now + d <= MaxTime
          /\ req' = [req EXCEPT ![r] = JWTAuthMiddleware(@, publicKeys, now, now + d)]
          /\ now' = now + d
    /\ publicKeys' = IF "unknown_key" \in req'[r].vres.err THEN EmptyMap ELSE publicKeys
    /\ UNCHANGED <<phase, startup, revoked>>

ServeJWT(r) ==
    /\ phase = "serving"
    /\ req[r].pc = "arrived"
    /\ req[r].gate = "jwt"
    /\ \E d \in 0..1 :
          /\ now + d <= MaxTime
          /\ req' = [req EXCEPT ![r] = JWTAuthMiddleware(@, publicKeys, now, now + d)]
          /\ now' = now + d
    /\ UNCHANGED <<phase, publicKeys, startup, revoked>>

\* The introspection gate handles request r up to its POST.
IntrospectSend(r) ==
    /\ phase = "serving"
    /\ req[r].pc = "arrived"
    /\ req[r].gate = "introspect"
    /\ req' = [req EXCEPT ![r] = TokenIntrospectionSend(@)]
    /\ UNCHANGED <<phase, publicKeys, now, startup, revoked>>

\* The provider answers the POST of request r and the gate finishes.
IntrospectRecv(r) ==
    /\ phase = "serving"
    /\ req[r].pc = "waiting"
    /\ \E answer \in ProviderAnswers :
          req' = [req EXCEPT ![r] = TokenIntrospectionRecv(@, answer)]
    /\ UNCHANGED <<phase, publicKeys, now, startup, revoked>>

\* The response of request r has been sent; its context is dropped.
Finish(r) ==
    /\ req[r].pc = "done"
    /\ req' = [req EXCEPT ![r] = IdleReq]
    /\ UNCHANGED <<phase, publicKeys, now, startup, revoked>>

Tick ==
    /\ now < MaxTime
    /\ now' = now + 1
    /\ UNCHANGED <<phase, publicKeys, req, startup, revoked>>

Next ==
    \/ main
    \/ Tick
    \/ \E r \in Reqs : Arrive(r)
    \/ \E r \in Reqs : ServeJWT(r)
    \/ \E r \in Reqs : IntrospectSend(r)
    \/ \E r \in Reqs : IntrospectRecv(r)
    \/ \E r \in Reqs : Finish(r)

Spec == Init /\ [][Next]_vars

(***************************************************************************)
(* Concurrent requests against a provider that revokes tokens: two         *)
(* requests in flight at once, each with no header or with one of a few    *)
(* tokens, and a provider that never reports a revoked token as active.    *)
(***************************************************************************)
\* Tokens the provider issued (unexpiring, expiring at each time, not yet
\* valid) and one forged with a key the provider never published.
LiveTokens ==
    {GoodToken(e) : e \in OptTimes(1..(MaxTime + 1))}
        \cup {[GoodToken({}) EXCEPT !.nbf = {MaxTime}],
              [GoodToken({}) EXCEPT !.signer = "m9"]}

LiveHeaders == {<<>>} \cup {BearerHeader(t) : t \in LiveTokens}

\* The token strings the provider may revoke.
Revocable == {<<JwtAtom(GoodToken({}))>>}

\* What the provider can answer to the POST for a token: as ProviderAnswers,
\* with status 200 or 503, and active = false once the token is revoked.
LiveAnswers(token) ==
    {a \in ProviderAnswers :
        /\ a.kind \in {"neterr", "http"}
        /\ a.status \in {0, 200, 503}
        /\ a.kind = "http" => a.body.json
        /\ (token \in revoked /\ a.kind = "http" /\ a.status = 200) => ~a.body.active}

ConcInit ==
    /\ phase = "boot"
    /\ publicKeys = EmptyMap
    /\ now = 0
    /\ req = [r \in {"r1", "r2"} |-> IdleReq]
    /\ startup = NotLoaded
    /\ revoked = {}

ArriveConc(r) ==
    /\ phase = "serving"
    /\ req[r].pc = "idle"
    /\ \E gate \in {"jwt", "introspect"}, header \in LiveHeaders :
          req' = [req EXCEPT ![r] =
                     [IdleReq EXCEPT !.pc = "arrived", !.gate = gate, !.header = header]]
    /\ UNCHANGED <<phase, publicKeys, now, startup, revoked>>

\* The provider revokes a token (logout, administrator action).
Revoke ==
    /\ \E t \in Revocable \ revoked : revoked' = revoked \cup {t}
    /\ UNCHANGED <<phase, publicKeys, now, req, startup>>

\* The provider answers the POST of request r from its current state and
\* the gate finishes.
IntrospectAnswer(r) ==
    /\ phase = "serving"
    /\ req[r].pc = "waiting"
    /\ \E answer \in LiveAnswers(req[r].token) :
          req' = [req EXCEPT ![r] = TokenIntrospectionRecv(@, answer)]
    /\ UNCHANGED <<phase, publicKeys, now, startup, revoked>>

ConcNext ==
    \/ main
    \/ Tick
    \/ Revoke
    \/ \E r \in Reqs : ArriveConc(r)
    \/ \E r \in Reqs : ServeJWT(r)
    \/ \E r \in Reqs : IntrospectSend(r)
    \/ \E r \in Reqs : IntrospectAnswer(r)
    \/ \E r \in Reqs : Finish(r)

ConcSpec == ConcInit /\ [][ConcNext]_vars

\* One connection served by the same steps, with each gate's handler
\* scheduled: a handler that can run does run.  Nothing is assumed of the
\* provider.
LiveSpec ==
    /\ Init
    /\ [][ConcNext]_vars
    /\ WF_vars(ServeJWT("r1"))
    /\ WF_vars(IntrospectSend("r1"))

(***************************************************************************)
(* The bearer extractor on every header of plain words: the server is      *)
(* serving with both published keys loaded and one request has arrived.    *)
(***************************************************************************)
BothKeys ==
    [ok |-> TRUE, err |-> "none",
     keys |-> <<[kid |-> "k1", n |-> "m1"], [kid |-> "k2", n |-> "m2"]>>]

InitExtract ==
    /\ phase = "serving"
    /\ publicKeys = GetKeycloakPublicKey(EmptyMap, BothKeys).map
    /\ startup = Loaded(BothKeys, GetKeycloakPublicKey(EmptyMap, BothKeys))
    /\ revoked = {}
    /\ now = 0
    /\ \E gate \in {"jwt", "introspect"}, header \in PlainHeaders :
          req = [r \in {"r1"} |->
                    [IdleReq EXCEPT !.pc = "arrived", !.gate = gate, !.header = header]]

NextExtract ==
    \/ \E r \in Reqs : ServeJWT(r)
    \/ \E r \in Reqs : IntrospectSend(r)
    \/ \E r \in Reqs : IntrospectRecv(r)

ExtractSpec == InitExtract /\ [][NextExtract]_vars


(***************************************************************************)
(* Properties.  The vocabulary they share, stated on the token the client  *)
(* sent and on the key set, not on the verifier's own helpers.             *)
(***************************************************************************)
\* Request context c went through verifyToken with a three-segment token.
Verified(c) ==
    c.gate = "jwt" /\ c.pc = "done" /\ c.vcalls = 1 /\ WellFormed(c.token)
TokenOf(c) == c.token[1].t
DeclaresRSA(t) == t.alg \in {"RS256", "RS384", "RS512"}
KidCached(t) == t.kid \in DOMAIN publicKeys
\* The kid names a cached key and that key verifies the signature.
SignedByCachedKey(t) == KidCached(t) /\ publicKeys[t.kid] = t.signer
HasExpectedAudience(t) == \E i \in 1..Len(t.aud) : t.aud[i] = "account"
AudienceOK(t) == Len(t.aud) > 0 => HasExpectedAudience(t)

\* C1: a request of the JWT gate reaches the downstream handler only if its
\* token declares an RSA algorithm, its kid is in the key set, its signature
\* verifies under exactly that cached key, its issuer is the configured one,
\* its expiration (if present) has not passed at either clock reading, and
\* its audience (if present) contains the expected value.
C1_JWTGateSound ==
    \A r \in Reqs :
        LET c == req[r]
        IN  (c.gate = "jwt" /\ c.next) =>
                /\ c.extracted
                /\ c.header = <<BearerWord, SP>> \o c.token
                /\ WellFormed(c.token)
                /\ DeclaresRSA(TokenOf(c))
                /\ KidCached(TokenOf(c))
                /\ publicKeys[TokenOf(c).kid] = TokenOf(c).signer
                /\ TokenOf(c).iss = keycloakURL
                /\ \A e \in TokenOf(c).exp : c.t1 < e /\ c.t2 <= e
                /\ AudienceOK(TokenOf(c))

C1_Witness ==
    \E r \in Reqs :
        /\ req[r].gate = "jwt" /\ req[r].next
        /\ TokenOf(req[r]).kid = "k2"
        /\ TokenOf(req[r]).exp # {}
        /\ Len(TokenOf(req[r]).aud) > 0
        /\ Cardinality(DOMAIN publicKeys) = 2

\* C2: in either gate the identity attributes user_id and email are set in
\* the request context iff the gate let the request through to the
\* downstream handler: never on a rejected request, always on an allowed one.
C2_IdentityIffAllowed ==
    \A r \in Reqs :
        LET c == req[r]
        IN  /\ (c.ctx # {}) <=> c.next
            /\ c.next => {p[1] : p \in c.ctx} = {"user_id", "email"}
            /\ c.aborted => c.ctx = {} /\ ~c.next
            /\ c.pc = "done" => (c.aborted <=> ~c.next)

C2_Witness ==
    \E r \in Reqs :
        /\ req[r].gate = "introspect" /\ req[r].pc = "done" /\ req[r].next
        /\ req[r].ctx = {<<"user_id", "u1">>, <<"email", "e1">>}

\* C3 as stated: every well-formed token signed by a cached key (RS*
\* algorithm, kid naming the key that signed it), with the configured
\* issuer, unexpired and with a valid audience if any, is accepted with the
\* claims of its payload.
C3_Original ==
    \A r \in Reqs :
        LET c == req[r]
        IN  (/\ Verified(c)
             /\ DeclaresRSA(TokenOf(c))
             /\ SignedByCachedKey(TokenOf(c))
             /\ TokenOf(c).iss = keycloakURL
             /\ \A e \in TokenOf(c).exp : c.t2 < e
             /\ AudienceOK(TokenOf(c)))
            => c.vres.ok /\ c.vres.claims = Claims(TokenOf(c))

\* C3 amended: the same, for tokens whose not-before, if present, is not
\* later than the verification time.
C3_AcceptsValidTokens ==
    \A r \in Reqs :
        LET c == req[r]
        IN  (/\ Verified(c)
             /\ DeclaresRSA(TokenOf(c))
             /\ SignedByCachedKey(TokenOf(c))
             /\ TokenOf(c).iss = keycloakURL
             /\ \A e \in TokenOf(c).exp : c.t2 < e
             /\ \A n \in TokenOf(c).nbf : n <= c.t1
             /\ AudienceOK(TokenOf(c)))
            => /\ c.vres.ok
               /\ c.vres.claims.sub = TokenOf(c).sub
               /\ c.vres.claims.email = TokenOf(c).email
               /\ c.vres.claims.iss = TokenOf(c).iss
               /\ c.vres.claims.exp = TokenOf(c).exp
               /\ c.vres.claims.nbf = TokenOf(c).nbf
               /\ c.vres.claims.aud = TokenOf(c).aud
               /\ c.next

C3_Witness ==
    \E r \in Reqs :
        /\ Verified(req[r]) /\ req[r].vres.ok
        /\ TokenOf(req[r]).nbf # {}
        /\ TokenOf(req[r]).exp # {}
        /\ TokenOf(req[r]).aud = <<"other", "account">>
        /\ req[r].vres.claims.sub = "u2"

\* C4 as stated: a token (RS* algorithm, kid present) signed with a key that
\* is not in the cache, or whose kid is not in the cache, fails with the
\* unknown-key failure and never with the bad-signature failure.
C4_Original ==
    \A r \in Reqs :
        LET c == req[r]
        IN  (/\ Verified(c)
             /\ DeclaresRSA(TokenOf(c))
             /\ TokenOf(c).kid # NoKid
             /\ \/ ~KidCached(TokenOf(c))
                \/ \A k \in DOMAIN publicKeys : publicKeys[k] # TokenOf(c).signer)
            => ~c.vres.ok /\ c.vres.err = {"unknown_key"}

\* C4 amended: a token (RS* algorithm) whose kid is present and not in the
\* cache fails with the unknown-key failure, never with bad-signature,
\* whichever key signed it: the lookup is decided before any signature check.
C4_UnknownKidIsUnknownKey ==
    \A r \in Reqs :
        LET c == req[r]
        IN  (/\ Verified(c)
             /\ DeclaresRSA(TokenOf(c))
             /\ TokenOf(c).kid # NoKid
             /\ ~KidCached(TokenOf(c)))
            => ~c.vres.ok /\ c.vres.err = {"unknown_key"} /\ ~c.next

C4_Witness ==
    \E r \in Reqs :
        /\ Verified(req[r])
        /\ TokenOf(req[r]).kid = "k2"
        /\ DOMAIN publicKeys = {"k1"}
        /\ TokenOf(req[r]).signer = "m1"
        /\ req[r].vres.err = {"unknown_key"}

\* C5 as stated: a token whose exp is in the past fails with the expired
\* failure, whether or not its signature is valid or its key known.
C5_Original ==
    \A r \in Reqs :
        LET c == req[r]
        IN  (Verified(c) /\ \E e \in TokenOf(c).exp : e < c.t1)
            => ~c.vres.ok /\ "expired" \in c.vres.err

\* C5 amended: a token that declares an RS* algorithm and is signed by the
\* cached key its kid names, with exp in the past, fails with the expired
\* failure, whatever its issuer, audience and not-before.
C5_ExpiredAfterSignature ==
    \A r \in Reqs :
        LET c == req[r]
        IN  (/\ Verified(c)
             /\ DeclaresRSA(TokenOf(c))
             /\ SignedByCachedKey(TokenOf(c))
             /\ \E e \in TokenOf(c).exp : e < c.t1)
            => ~c.vres.ok /\ "expired" \in c.vres.err /\ ~c.next

C5_Witness ==
    \E r \in Reqs :
        /\ Verified(req[r])
        /\ SignedByCachedKey(TokenOf(req[r]))
        /\ \E e \in TokenOf(req[r]).exp : e < req[r].t1
        /\ TokenOf(req[r]).iss # keycloakURL
        /\ TokenOf(req[r]).nbf # {}
        /\ req[r].vres.err = {"expired", "not_valid_yet"}


\* C6 as stated: a token whose issuer is not the configured issuer fails
\* with the invalid-issuer failure even when its signature (RS* algorithm,
\* cached key) and its expiration are valid, whatever its audience.
C6_Original ==
    \A r \in Reqs :
        LET c == req[r]
        IN  (/\ Verified(c)
             /\ DeclaresRSA(TokenOf(c))
             /\ SignedByCachedKey(TokenOf(c))
             /\ \A e \in TokenOf(c).exp : c.t1 < e
             /\ TokenOf(c).iss # keycloakURL)
            => ~c.vres.ok /\ c.vres.err = {"invalid_issuer"}

\* C6 amended: the same, for tokens whose not-before, if present, is not
\* later than the verification time.
C6_InvalidIssuer ==
    \A r \in Reqs :
        LET c == req[r]
        IN  (/\ Verified(c)
             /\ DeclaresRSA(TokenOf(c))
             /\ SignedByCachedKey(TokenOf(c))
             /\ \A e \in TokenOf(c).exp : c.t1 < e
             /\ \A n \in TokenOf(c).nbf : n <= c.t1
             /\ TokenOf(c).iss # keycloakURL)
            => ~c.vres.ok /\ c.vres.err = {"invalid_issuer"} /\ ~c.next

C6_Witness ==
    \E r \in Reqs :
        /\ Verified(req[r])
        /\ SignedByCachedKey(TokenOf(req[r]))
        /\ TokenOf(req[r]).iss # keycloakURL
        /\ TokenOf(req[r]).aud = <<"other">>
        /\ TokenOf(req[r]).exp # {}
        /\ req[r].vres.err = {"invalid_issuer"}

\* The provider answered the POST with status 200 and a JSON body.
WellFormedAnswer(a) == a.kind = "http" /\ a.status = 200 /\ a.body.json

\* C7: when the provider's answer is well-formed with active = false,
\* introspectToken returns a result and no error, and the introspection
\* gate rejects with 401 without running the downstream handler.
C7_InactiveRejected ==
    \A r \in Reqs :
        LET c == req[r]
        IN  (/\ c.gate = "introspect" /\ c.pc = "done"
             /\ WellFormedAnswer(c.answer) /\ ~c.answer.body.active)
            => /\ c.ires.ok /\ ~c.ires.active
               /\ c.status = 401 /\ c.aborted
               /\ ~c.next /\ c.ctx = {}

C7_Witness ==
    \E r \in Reqs :
        /\ req[r].gate = "introspect" /\ req[r].pc = "done"
        /\ WellFormedAnswer(req[r].answer) /\ ~req[r].answer.body.active
        /\ req[r].error = "inactive"

\* C8: the introspection gate answers 500 whenever the introspection client
\* returns an error, which it does on a transport error, on a non-2xx status
\* such as 503 and on an unparseable body, and only then; every other
\* rejection of either gate is 401, and the JWT gate never answers 500.
C8_RejectionStatus ==
    \A r \in Reqs :
        LET c == req[r]
            answered == c.gate = "introspect" /\ c.posts = 1
            clientFailed == answered /\ ~c.ires.ok
        IN  c.pc = "done" =>
                /\ c.status = 500 <=> clientFailed
                /\ (answered /\ (\/ c.answer.kind \in {"neterr", "readerr"}
                                 \/ c.answer.status \notin 200..299
                                 \/ ~c.answer.body.json)) => c.status = 500
                /\ (c.aborted /\ ~clientFailed) => c.status = 401
                /\ c.gate = "jwt" => c.status # 500
                /\ c.aborted <=> c.status \in {401, 500}

C8_Witness ==
    \E r \in Reqs :
        /\ req[r].gate = "introspect" /\ req[r].pc = "done"
        /\ req[r].answer.kind = "http" /\ req[r].answer.status = 503
        /\ req[r].status = 500

\* The header is the scheme Bearer, one space, and a rest without a space.
BearerFormat(h) ==
    /\ Len(h) >= 2
    /\ h[1] = BearerWord
    /\ h[2] = SP
    /\ \A i \in 3..Len(h) : h[i] # SP

\* C9: a request whose bearer extraction fails is answered 401 by either
\* gate and causes no downstream call: verifyToken is not invoked, no
\* introspection POST is sent, the downstream handler does not run.
C9_NoDownstreamCalls ==
    \A r \in Reqs :
        LET c == req[r]
        IN  (c.pc # "idle" /\ ~BearerFormat(c.header)) =>
                /\ c.vcalls = 0 /\ c.posts = 0 /\ ~c.next
                /\ c.pc \in {"arrived", "done"}
                /\ c.pc = "done" => c.status = 401 /\ c.aborted /\ ~c.extracted

C9_Witness ==
    \E r \in Reqs :
        /\ req[r].pc = "done" /\ req[r].gate = "jwt"
        /\ req[r].header = <<Word("Token"), SP, Word("abc")>>
        /\ req[r].status = 401

\* strings.Fields: the maximal runs of non-whitespace.
RECURSIVE Fields(_)
Fields(s) ==
    IF s = <<>> THEN <<>>
    ELSE IF IsWS(s[1]) THEN Fields(Tail(s))
    ELSE LET n == CHOOSE k \in 2..(Len(s) + 1) :
                      /\ k = Len(s) + 1 \/ IsWS(s[k])
                      /\ \A j \in 2..(k - 1) : ~IsWS(s[j])
         IN  <<SubSeq(s, 1, n - 1)>> \o Fields(SubSeq(s, n, Len(s)))

\* The extractor has returned for request context c.
Extracted(c) == c.pc \in {"waiting", "done"}

\* C10 as stated, on header values without surrounding whitespace: an empty
\* header fails as missing; otherwise extraction succeeds exactly when the
\* header has two whitespace-separated parts, the first being Bearer, and
\* returns the second; else it fails as malformed.
C10_Original ==
    \A r \in Reqs :
        LET c == req[r]
            f == Fields(c.header)
        IN  (Extracted(c) /\ Trimmed(c.header)) =>
                IF c.header = <<>>
                THEN ~c.extracted /\ c.error = "missing"
                ELSE IF Len(f) = 2 /\ f[1] = <<BearerWord>>
                THEN c.extracted /\ c.token = f[2]
                ELSE ~c.extracted /\ c.error = "malformed"

\* C10 amended: the parts are those between single space characters: the
\* header must hold exactly one space, after the word Bearer; the rest,
\* which may be empty or hold tabs, is returned unmodified.
C10_ExtractBearerToken ==
    \A r \in Reqs :
        LET c == req[r]
        IN  Extracted(c) =>
                IF c.header = <<>>
                THEN ~c.extracted /\ c.error = "missing" /\ c.status = 401
                ELSE IF BearerFormat(c.header)
                THEN c.extracted /\ c.token = SubSeq(c.header, 3, Len(c.header))
                ELSE ~c.extracted /\ c.error = "malformed" /\ c.status = 401

C10_Witness ==
    \E r \in Reqs :
        /\ Extracted(req[r]) /\ req[r].extracted
        /\ req[r].header = <<BearerWord, SP, TAB, Word("abc")>>
        /\ req[r].token = <<TAB, Word("abc")>>

(***************************************************************************)
(* Startup.                                                                *)
(***************************************************************************)
\* The startup load returned an error: fetchJWKS failed, or a key record
\* did not convert.
LoadFailed == startup.called /\ ~startup.ok

\* Request context c has been touched by a gate.
Handled(c) == c.pc \in {"waiting", "done"}

\* C11: when GetKeycloakPublicKey fails, for any cause (the GET fails, the
\* status is not 200, the body cannot be read or parsed, a key record does
\* not convert), main panics: the server is never serving and no request is
\* ever received or handled by a gate.
C11_FailedLoadAborts ==
    /\ LoadFailed =>
          /\ phase = "crashed"
          /\ \A r \in Reqs : req[r] = IdleReq
    /\ (startup.called /\ (~startup.fetched.ok
                             \/ \E i \in 1..Len(startup.fetched.keys) :
                                   ~jwkToRSAPublicKey(startup.fetched.keys[i]).ok))
          => LoadFailed
    /\ (\E r \in Reqs : req[r].pc # "idle") => startup.called /\ startup.ok

C11_Witness ==
    /\ LoadFailed
    /\ startup.fetched.ok
    /\ Len(startup.fetched.keys) = 2
    /\ phase = "crashed"

\* C12 as stated: whenever the server is serving, the key set holds at least
\* one key, whatever key-set document the provider returned at startup.
C12_NoEmptyKeySet ==
    phase = "serving" => DOMAIN publicKeys # {}

\* C13 as stated: every rejection response of either gate, whatever its
\* cause, is a JSON object with the fields error, detail and method.
C13_RejectionBody ==
    \A r \in Reqs :
        req[r].aborted => {"error", "detail", "method"} \subseteq req[r].body

(***************************************************************************)
(* The key set under concurrent requests.                                  *)
(***************************************************************************)
\* C14: the key set is written once, by the startup load, before any
\* request is received, and no step taken while the server is serving
\* (arrival, either gate succeeding or failing, for any of the concurrent
\* requests, in any interleaving) changes it: every lookup sees the mapping
\* the startup load built from the fetched document.
C14_KeySetWrittenOnce ==
    [][/\ (publicKeys' # publicKeys \/ startup' # startup) =>
             /\ phase = "boot"
             /\ \A r \in Reqs : req[r] = IdleReq
       /\ phase' = "serving" =>
             /\ startup'.gets = 1 /\ startup'.writes = 1
             /\ publicKeys' = ConvertKeys(startup'.fetched.keys, 1, EmptyMap).map
       /\ phase = "serving" => publicKeys' = publicKeys /\ phase' = "serving"]_vars

C14_Witness ==
    /\ phase = "serving"
    /\ Cardinality(DOMAIN publicKeys) = 2
    /\ req["r1"].gate = "jwt" /\ req["r1"].pc = "done" /\ ~req["r1"].next
    /\ req["r2"].gate = "jwt" /\ req["r2"].pc = "done" /\ req["r2"].next
    /\ req["r1"].t1 > req["r2"].t2

(***************************************************************************)
(* Revocation.                                                             *)
(***************************************************************************)
\* C15: once the provider has revoked a token, every request of the
\* introspection gate that gets its answer for that token is rejected (401
\* on the provider's active = false, 500 when the call fails) on the answer
\* to its own POST, whatever an earlier request with the same token got;
\* a request of the JWT gate with the same token, signed by the cached key
\* its kid names, with the configured issuer and unexpired, is still let
\* through.
C15_LiveRevocation ==
    [][\A r \in Reqs :
          LET c == req[r]
              d == req'[r]
          IN  /\ (/\ c.gate = "introspect" /\ c.pc = "waiting"
                  /\ c.token \in revoked
                  /\ d.pc = "done")
                 => /\ d.aborted /\ ~d.next /\ d.ctx = {}
                    /\ d.posts = 1
                    /\ WellFormedAnswer(d.answer)
                          => ~d.answer.body.active /\ d.status = 401
                    /\ ~WellFormedAnswer(d.answer) => d.status = 500
              /\ (/\ c.gate = "jwt" /\ c.pc = "arrived"
                  /\ c.header \in {<<BearerWord, SP>> \o t : t \in revoked}
                  /\ d.pc = "done"
                  /\ DeclaresRSA(TokenOf(d))
                  /\ SignedByCachedKey(TokenOf(d))
                  /\ TokenOf(d).iss = keycloakURL
                  /\ \A e \in TokenOf(d).exp : d.t2 < e
                  /\ \A n \in TokenOf(d).nbf : n <= d.t1
                  /\ AudienceOK(TokenOf(d)))
                 => d.next /\ d.posts = 0]_vars

C15_Witness ==
    \E t \in revoked :
        /\ req["r1"].gate = "introspect" /\ req["r1"].token = t
        /\ req["r1"].pc = "done" /\ req["r1"].next
        /\ req["r2"].gate = "introspect" /\ req["r2"].token = t
        /\ req["r2"].pc = "done" /\ req["r2"].status = 401
        /\ req["r2"].error = "inactive"

(***************************************************************************)
(* Outbound calls.                                                         *)
(***************************************************************************)
\* C16: a request of the JWT gate sends no introspection POST and causes no
\* key-set GET (the one GET is the startup load's); a request of the
\* introspection gate that passes bearer extraction has sent exactly one
\* POST, also after the call failed (no retry), and its verdict is the one
\* of the answer to that POST, whatever another request with the same token
\* got.
C16_OutboundCalls ==
    /\ phase = "serving" => startup.gets = 1
    /\ \A r \in Reqs :
          LET c == req[r]
          IN  /\ c.gate = "jwt" => c.posts = 0 /\ c.answer = NoAnswer
              /\ c.gate = "introspect" =>
                    /\ c.posts = (IF Handled(c) /\ c.extracted THEN 1 ELSE 0)
                    /\ c.vcalls = 0
                    /\ (c.pc = "done" /\ c.extracted) =>
                          /\ c.answer \in ProviderAnswers
                          /\ ~c.ires.ok => c.status = 500
                          /\ c.next <=> (WellFormedAnswer(c.answer) /\ c.answer.body.active)

C16_Witness ==
    /\ req["r1"].gate = "introspect" /\ req["r2"].gate = "introspect"
    /\ req["r1"].token = req["r2"].token
    /\ req["r1"].pc = "done" /\ req["r1"].status = 500 /\ req["r1"].posts = 1
    /\ req["r2"].pc = "done" /\ req["r2"].next /\ req["r2"].posts = 1

(***************************************************************************)
(* The key-set load as a replacement of the mapping.                       *)
(***************************************************************************)
\* Every record of the document under its kid (the last record of a kid
\* that occurs twice).
CompleteMap(keys) ==
    [k \in {keys[i].kid : i \in 1..Len(keys)} |->
        LET last == CHOOSE i \in 1..Len(keys) :
                        /\ keys[i].kid = k
                        /\ \A j \in (i + 1)..Len(keys) : keys[j].kid # k
        IN  jwkToRSAPublicKey(keys[last]).key]

\* C17 as stated: after the call of GetKeycloakPublicKey the mapping is the
\* complete set of the document's keys when the call succeeded, and what it
\* was before the call (empty, at startup) when the call failed.
C17_AtomicReplace ==
    startup.called =>
        publicKeys = (IF startup.ok THEN CompleteMap(startup.fetched.keys)
                                    ELSE EmptyMap)

(***************************************************************************)
(* The verifier called twice.                                              *)
(***************************************************************************)
\* C18: when verifyToken has accepted a token and is called again with the
\* same token string and the same key set, at another time at which the
\* token is still valid (not expired, not before its nbf), it accepts again
\* and returns identical claims.
C18_VerifyIdempotent ==
    \A r \in Reqs, q \in Reqs :
        (/\ Verified(req[r]) /\ Verified(req[q])
         /\ req[r].token = req[q].token
         /\ req[r].vres.ok
         /\ \A e \in TokenOf(req[q]).exp : req[q].t2 < e
         /\ \A n \in TokenOf(req[q]).nbf : n <= req[q].t1)
        => /\ req[q].vres.ok
           /\ req[q].vres.claims = req[r].vres.claims
           /\ req[q].ctx = req[r].ctx

C18_Witness ==
    /\ Verified(req["r1"]) /\ Verified(req["r2"])
    /\ req["r1"].token = req["r2"].token
    /\ req["r1"].vres.ok /\ req["r2"].vres.ok
    /\ req["r1"].t2 < req["r2"].t1
    /\ TokenOf(req["r1"]).exp # {}

(***************************************************************************)
(* The expiration boundary.                                                *)
(***************************************************************************)
\* C19: verifyToken accepts a token that has an expiration only if the
\* expiration is strictly later than the time at which the token is
\* validated; a token whose exp equals that time is rejected, as expired
\* when the checks made before reach the expiration (RS* algorithm,
\* signature verifying under the cached key its kid names); a token without
\* exp never fails as expired and is accepted when everything else is valid.
C19_ExpirationBoundary ==
    \A r \in Reqs :
        LET c == req[r]
        IN  Verified(c) =>
              /\ c.vres.ok => \A e \in TokenOf(c).exp : c.t1 < e /\ c.t2 <= e
              /\ TokenOf(c).exp = {c.t1} =>
                    /\ ~c.vres.ok /\ ~c.next
                    /\ (DeclaresRSA(TokenOf(c)) /\ SignedByCachedKey(TokenOf(c)))
                          => "expired" \in c.vres.err
              /\ TokenOf(c).exp = {} =>
                    /\ "expired" \notin c.vres.err
                    /\ (/\ DeclaresRSA(TokenOf(c))
                        /\ SignedByCachedKey(TokenOf(c))
                        /\ TokenOf(c).iss = keycloakURL
                        /\ \A n \in TokenOf(c).nbf : n <= c.t1
                        /\ AudienceOK(TokenOf(c))) => c.vres.ok

C19_Witness ==
    \E r \in Reqs :
        /\ Verified(req[r])
        /\ req[r].t1 > 0
        /\ TokenOf(req[r]).exp = {req[r].t1}
        /\ req[r].t2 = req[r].t1
        /\ TokenOf(req[r]).iss = keycloakURL
        /\ req[r].vres.err = {"expired"}

(***************************************************************************)
(* The state machine of a request.                                         *)
(***************************************************************************)
Authorized(c) == c.pc = "done" /\ c.next
Rejected(c) == c.pc = "done" /\ c.aborted

\* The order of the states of one request; the request is over when its
\* context is dropped.
RequestStep(c, d) ==
    \/ d = c
    \/ c.pc = "idle" /\ d.pc = "arrived"
    \/ c.pc = "arrived" /\ c.gate = "jwt" /\ d.pc = "done" /\ d.vcalls <= 1
    \/ c.pc = "arrived" /\ c.gate = "introspect" /\ ~d.extracted /\ Rejected(d)
    \/ c.pc = "arrived" /\ c.gate = "introspect" /\ d.extracted /\ d.pc = "waiting"
    \/ c.pc = "waiting" /\ d.pc = "done"
    \/ c.pc = "done" /\ d = IdleReq

\* C20: a request goes arrived -> (extraction, then verification or the
\* introspection call) -> done, where it is either authorized or rejected,
\* never both, with exactly one response written; a finished request stays
\* as it is until its context is dropped.  A request of the JWT gate always
\* gets there; a request of the introspection gate gets there or waits for
\* the provider, and gets there if it does not wait for the provider
\* forever.
C20_RequestStateMachine ==
    /\ [](\A r \in Reqs :
            /\ req[r].pc = "done" => (Authorized(req[r]) <=> ~Rejected(req[r]))
            /\ req[r].responses = (IF req[r].pc = "done" THEN 1 ELSE 0)
            /\ req[r].aborted => req[r].pc = "done" /\ req[r].status \in {401, 500}
            /\ req[r].next => req[r].pc = "done" /\ req[r].status = 200)
    /\ [][\A r \in Reqs : RequestStep(req[r], req'[r])]_vars
    /\ \A r \in {"r1"} :
          /\ (req[r].pc = "arrived" /\ req[r].gate = "jwt") ~> (req[r].pc = "done")
          /\ (req[r].pc = "arrived" /\ req[r].gate = "introspect")
                ~> (req[r].pc \in {"waiting", "done"})
          /\ ([]<>(req[r].pc # "waiting"))
                => ((req[r].pc = "arrived" /\ req[r].gate = "introspect")
                      ~> (req[r].pc = "done"))

C20_Witness ==
    /\ Rejected(req["r1"]) /\ req["r1"].gate = "introspect"
    /\ req["r1"].extracted /\ req["r1"].status = 500
    /\ req["r1"].responses = 1

(***************************************************************************)
(* The provider's status and the active flag.                              *)
(***************************************************************************)
\* C21: when the provider answers the introspection POST with a status
\* other than 200, the request is not authorized, whatever the body: the
\* client returns the status error without decoding the body, so the gate
\* answers 500 even for a JSON body with active = true.
C21_StatusBeforeActive ==
    \A r \in Reqs :
        LET c == req[r]
        IN  (/\ c.gate = "introspect" /\ c.pc = "done"
             /\ c.answer.kind = "http" /\ c.answer.status # 200)
            => /\ ~c.ires.ok /\ c.ires.err = "status" /\ ~c.ires.active
               /\ ~c.next /\ c.ctx = {}
               /\ c.aborted /\ c.status = 500 /\ c.error = "introspect_failed"

C21_Witness ==
    \E r \in Reqs :
        /\ req[r].gate = "introspect" /\ req[r].pc = "done"
        /\ req[r].answer.kind = "http" /\ req[r].answer.status = 201
        /\ req[r].answer.body.json /\ req[r].answer.body.active
        /\ req[r].status = 500

====
